---------------------------- MODULE Spec2Model ----------------------------
(***************************************************************************)
(* Model of backend/server.py: the mode classifier (detect_mode), the fact *)
(* retriever (tokenize, retrieve_facts), the answer shaper                 *)
(* (shortify_answer), the chat handler (chat) and the streaming relay      *)
(* (chat_stream.event_generator).                                          *)
(*                                                                         *)
(* A text is a sequence of one-character strings, so that the regular      *)
(* expressions and string methods of the source are modelled by what they  *)
(* do to the characters.                                                   *)
(***************************************************************************)
EXTENDS Naturals, Integers, Sequences, FiniteSets, TLC

VARIABLES
    user_text,   \* the request's text (query of the classifier and retriever)
    store,       \* rows of memory_store.json as json.load returns them
    history,     \* ChatRequest.history
    answer,      \* raw answer text handed to shortify_answer
    mode,        \* result of detect_mode
    facts,       \* result of retrieve_facts
    shaped,      \* shortify_answer(answer)
    reshaped,    \* shortify_answer(shaped)
    messages,    \* message list handed to call_ollama
    resp,        \* HTTP response of the chat handler
    attempts,    \* number of call_ollama invocations of the current request
    pc,          \* position of the handler / generator
    events,      \* events the generator has yielded, in order
    upstream,    \* what the POST to the inference backend came to
    received,    \* upstream lines iter_lines has delivered, in order
    connOpen,    \* the upstream response of call_ollama is open
    abandoned,   \* the consumer has disconnected
    atAbandon    \* what had been emitted, read and requested at the disconnect

vars == <<user_text, store, history, answer, mode, facts, shaped, reshaped,
          messages, resp, attempts, pc, events, upstream, received, connOpen,
          abandoned, atAbandon>>

None == "none"

NotAbandoned == [events |-> 0, lines |-> 0, attempts |-> 0]

\* memory_store.json: ok is FALSE when the file is absent or does not parse,
\* rows is what json.load returns
EmptyStore == [ok |-> TRUE, rows |-> <<>>]
MissingStore == [ok |-> FALSE, rows |-> <<>>]

-----------------------------------------------------------------------------
(* Characters and the string primitives the source uses.                   *)

UpperLetters == <<"A","B","C","D","E","F","G","H","I","J","K","L","M",
                  "N","O","P","Q","R","S","T","U","V","W","X","Y","Z">>
LowerLetters == <<"a","b","c","d","e","f","g","h","i","j","k","l","m",
                  "n","o","p","q","r","s","t","u","v","w","x","y","z">>
Digits == {"0","1","2","3","4","5","6","7","8","9"}

Range(s) == {s[i] : i \in 1..Len(s)}

\* \s of the re module
IsSpace(c) == c \in {" ", "\n", "\t"}

WordChars == Range(UpperLetters) \cup Range(LowerLetters) \cup Digits \cup {"_"}

\* \w of the re module
IsWordChar(c) == c \in WordChars

\* the characters of ".!?" (sentence-terminal punctuation)
TerminalPunct == {".", "!", "?"}

\* the characters of ".,;:!?" (argument of rstrip)
TrailingPunct == {".", ",", ";", ":", "!", "?"}

SetMin(S) == CHOOSE m \in S : \A n \in S : m <= n
SetMax(S) == CHOOSE m \in S : \A n \in S : m >= n

LowerOf == [c \in Range(UpperLetters) |->
              LowerLetters[CHOOSE i \in 1..26 : UpperLetters[i] = c]]

LowerChar(c) == IF c \in DOMAIN LowerOf THEN LowerOf[c] ELSE c

\* str.lower()
Lower(s) == [i \in 1..Len(s) |-> LowerChar(s[i])]

\* str.strip()
Strip(s) ==
    LET keep == {i \in 1..Len(s) : ~IsSpace(s[i])}
    IN  IF keep = {} THEN <<>> ELSE SubSeq(s, SetMin(keep), SetMax(keep))

\* str.rstrip(chars)
RStrip(s, chars) ==
    LET keep == {i \in 1..Len(s) : s[i] \notin chars}
    IN  IF keep = {} THEN <<>> ELSE SubSeq(s, 1, SetMax(keep))

Indices(s) == [i \in 1..Len(s) |-> i]

\* re.sub(r"\s+", " ", s): every maximal whitespace run becomes one space
\* (the first character of a run is kept as a space, the others are dropped)
CollapseWhitespace(s) ==
    LET marked == [i \in 1..Len(s) |->
                     [c    |-> IF IsSpace(s[i]) THEN " " ELSE s[i],
                      drop |-> IsSpace(s[i]) /\ i > 1 /\ IsSpace(s[i-1])]]
        kept == SelectSeq(marked, LAMBDA m : ~m.drop)
    IN  [i \in 1..Len(kept) |-> kept[i].c]

\* str.split(): the maximal runs of non-whitespace characters, in order
SplitWords(s) ==
    LET starts == SelectSeq(Indices(s),
                    LAMBDA i : ~IsSpace(s[i]) /\ (i = 1 \/ IsSpace(s[i-1])))
        ends   == SelectSeq(Indices(s),
                    LAMBDA i : ~IsSpace(s[i]) /\ (i = Len(s) \/ IsSpace(s[i+1])))
    IN  [k \in 1..Len(starts) |-> SubSeq(s, starts[k], ends[k])]

\* sep.join(parts[lo..hi])
RECURSIVE JoinRange(_, _, _, _)
JoinRange(sep, parts, lo, hi) ==
    IF lo > hi THEN <<>>
    ELSE IF lo = hi THEN parts[lo]
    ELSE LET mid == (lo + hi) \div 2
         IN  JoinRange(sep, parts, lo, mid) \o sep \o JoinRange(sep, parts, mid + 1, hi)

\* sep.join(parts)
Join(sep, parts) == JoinRange(sep, parts, 1, Len(parts))

\* seq[:n]
Take(seq, n) == SubSeq(seq, 1, IF Len(seq) < n THEN Len(seq) ELSE n)

\* first index >= i of s that is not whitespace, Len(s) + 1 if there is none
SkipSpaces(s, i) ==
    LET rest == {j \in i..Len(s) : ~IsSpace(s[j])}
    IN  IF rest = {} THEN Len(s) + 1 ELSE SetMin(rest)

\* re.split(r"(?<=[.!?])\s+", s): cut at every whitespace run that directly
\* follows a terminal punctuation character; the pieces may be empty
SentenceSplit(s) ==
    LET cuts == SelectSeq(Indices(s),
                  LAMBDA i : i > 1 /\ IsSpace(s[i]) /\ s[i-1] \in TerminalPunct)
    IN  [k \in 1..(Len(cuts) + 1) |->
            SubSeq(s,
                   IF k = 1 THEN 1 ELSE SkipSpaces(s, cuts[k-1]),
                   IF k = Len(cuts) + 1 THEN Len(s) ELSE cuts[k] - 1)]

\* [s.strip() for s in pieces if s.strip()]
StripNonEmpty(pieces) ==
    LET stripped == [i \in 1..Len(pieces) |-> Strip(pieces[i])]
    IN  SelectSeq(stripped, LAMBDA p : p # <<>>)

Sentences(s) == StripNonEmpty(SentenceSplit(s))

-----------------------------------------------------------------------------
(* The answer shaper.                                                      *)

MAX_WORDS == 80
MAX_SENTENCES == 4

\* "Sorry, ik weet het nu even niet zeker."
FALLBACK_ANSWER ==
    <<"S","o","r","r","y",","," ","i","k"," ","w","e","e","t"," ","h","e","t",
      " ","n","u"," ","e","v","e","n"," ","n","i","e","t"," ","z","e","k","e",
      "r",".">>

\* the cut with the slice one word too long
TruncateWords_OffByOne(cleaned) ==
    LET words == SplitWords(cleaned)
    IN  IF Len(words) > MAX_WORDS
        THEN RStrip(Join(<<" ">>, Take(words, MAX_WORDS + 1)), TrailingPunct) \o <<".">>
        ELSE cleaned

\* if len(words) > 80: cleaned = " ".join(words[:80]).rstrip(".,;:!?") + "."
TruncateWords(cleaned) ==
    LET words == SplitWords(cleaned)
    IN  IF Len(words) > MAX_WORDS
        THEN RStrip(Join(<<" ">>, Take(words, MAX_WORDS)), TrailingPunct) \o <<".">>
        ELSE cleaned

\* the cut with the kept sentences joined by newlines
TruncateSentences_NewlineJoin(cleaned) ==
    LET sentences == Sentences(cleaned)
    IN  IF Len(sentences) > MAX_SENTENCES
        THEN LET kept == Strip(Join(<<"\n">>, Take(sentences, MAX_SENTENCES)))
             IN  IF kept # <<>> /\ kept[Len(kept)] \notin TerminalPunct
                 THEN kept \o <<".">>
                 ELSE kept
        ELSE cleaned

\* if len(sentences) > 4: cleaned = " ".join(sentences[:4]).strip(), closed
\* by a period when it does not end in one of ".!?"
TruncateSentences(cleaned) ==
    LET sentences == Sentences(cleaned)
    IN  IF Len(sentences) > MAX_SENTENCES
        THEN LET kept == Strip(Join(<<" ">>, Take(sentences, MAX_SENTENCES)))
             IN  IF kept # <<>> /\ kept[Len(kept)] \notin TerminalPunct
                 THEN kept \o <<".">>
                 ELSE kept
        ELSE cleaned

shortify_answer(raw) ==
    LET cleaned == TruncateSentences(TruncateWords(Strip(CollapseWhitespace(raw))))
    IN  IF cleaned = <<>> THEN FALLBACK_ANSWER ELSE cleaned


-----------------------------------------------------------------------------
(* Raw answers handed to the shaper: Repeat(unit, k) followed by a short   *)
(* tail of words, joined tightly (single spaces) or loosely (whitespace    *)
(* runs, leading and trailing whitespace).                                 *)

MaxTail == 2

SeqsUpTo(S, n) == UNION {[1..k -> S] : k \in 0..n}

Repeat(w, k) == [i \in 1..k |-> w]

ShapeWords == {<<"a">>, <<"b", ".">>, <<".">>, <<"c", ",">>, <<"d", "!">>}

ShapeUnits == {<<"a">>, <<"b", ".">>, <<".">>}

ShapeReps == {0, 1, 2, 3, MAX_SENTENCES, MAX_SENTENCES + 1,
              MAX_WORDS - 1, MAX_WORDS, MAX_WORDS + 1}

BuildText(words, style) ==
    IF style = "tight"
    THEN Join(<<" ">>, words)
    ELSE <<"\t">> \o Join(<<" ", "\n">>, words) \o <<" ">>

ShapeInputs ==
    {BuildText(Repeat(u, k) \o t, style) :
        u \in ShapeUnits, k \in ShapeReps,
        t \in SeqsUpTo(ShapeWords, MaxTail), style \in {"tight", "loose"}}

InitShape ==
    /\ answer \in ShapeInputs
    /\ pc = "input"
    /\ shaped = <<>> /\ reshaped = <<>>
    /\ user_text = <<>> /\ store = EmptyStore /\ history = <<>>
    /\ mode = None /\ facts = <<>> /\ messages = <<>> /\ resp = None
    /\ attempts = 0 /\ events = <<>> /\ received = <<>>
    /\ connOpen = FALSE /\ abandoned = FALSE
    /\ upstream = None /\ atAbandon = NotAbandoned

\* answer = shortify_answer(raw_answer)
Shape ==
    /\ pc = "input"
    /\ shaped' = shortify_answer(answer)
    /\ pc' = "shaped"
    /\ UNCHANGED <<user_text, store, history, answer, mode, facts, reshaped,
                   messages, resp, attempts, events, received, connOpen, abandoned,
                   upstream, atAbandon>>

\* the shaper applied to its own result
Reshape ==
    /\ pc = "shaped"
    /\ reshaped' = shortify_answer(shaped)
    /\ pc' = "reshaped"
    /\ UNCHANGED <<user_text, store, history, answer, mode, facts, shaped,
                   messages, resp, attempts, events, received, connOpen, abandoned,
                   upstream, atAbandon>>

NextShape == Shape \/ Reshape

SpecShape == InitShape /\ [][NextShape]_vars

HasPunctuation(s) == \E i \in 1..Len(s) : s[i] \in TrailingPunct

\* C6: for every raw text the shaped text is non-empty, has at most 80
\* whitespace-separated words and at most 4 sentences; empty or
\* whitespace-only input gives the fixed fallback phrase; more than 80 words
\* without punctuation give exactly 80 words ending in a period.
C6_ShapeBounded ==
    pc \in {"shaped", "reshaped"} =>
        /\ shaped # <<>>
        /\ Len(SplitWords(shaped)) <= MAX_WORDS
        /\ Len(Sentences(shaped)) <= MAX_SENTENCES
        /\ (\A i \in 1..Len(answer) : IsSpace(answer[i])) => shaped = FALLBACK_ANSWER
        /\ (Len(SplitWords(answer)) > MAX_WORDS /\ ~HasPunctuation(answer)) =>
               /\ Len(SplitWords(shaped)) = MAX_WORDS
               /\ shaped[Len(shaped)] = "."

C6_Witness ==
    /\ pc = "shaped"
    /\ Len(SplitWords(answer)) > MAX_WORDS
    /\ Len(Sentences(answer)) > MAX_SENTENCES
    /\ Len(Sentences(shaped)) = MAX_SENTENCES
    /\ shaped # Strip(CollapseWhitespace(answer))

\* C7: shaping is idempotent: shaping the shaped text changes nothing.
C7_ShapeIdempotent == pc = "reshaped" => reshaped = shaped

C7_Witness ==
    /\ pc = "reshaped"
    /\ Len(SplitWords(answer)) > MAX_WORDS
    /\ Len(SplitWords(shaped)) = MAX_WORDS
    /\ shaped[Len(shaped) - 1] \notin TrailingPunct
    /\ reshaped = shaped

-----------------------------------------------------------------------------
(* The mode classifier.                                                    *)

HIGH_RISK_KEYWORDS ==
    {<<"z","e","l","f","m","o","o","r","d">>,
     <<"s","u","i","c","i","d","e">>,
     <<"v","e","r","k","r","a","c","h","t","i","n","g">>,
     <<"r","a","p","e">>,
     <<"i","k"," ","w","i","l"," ","d","o","o","d">>,
     <<"m","e","z","e","l","f"," ","p","i","j","n">>,
     <<"a","c","u","t","e"," ","n","o","o","d">>}

SENSITIVE_KEYWORDS ==
    {<<"d","e","p","r","e","s","s","i","e">>,
     <<"a","n","g","s","t">>,
     <<"p","a","n","i","e","k">>,
     <<"p","t","s","s">>,
     <<"t","h","e","r","a","p","i","e">>,
     <<"m","e","d","i","s","c","h">>,
     <<"d","o","k","t","e","r">>,
     <<"j","u","r","i","d","i","s","c","h">>,
     <<"a","d","v","o","c","a","a","t">>,
     <<"m","i","s","d","a","a","d">>,
     <<"c","r","i","m","e">>}

\* kw in text
Contains(text, kw) ==
    \E i \in 1..(Len(text) - Len(kw) + 1) : SubSeq(text, i, i + Len(kw) - 1) = kw

\* the classifier with the two keyword tests in the wrong order
detect_mode_SensitiveFirst(text_in) ==
    LET text == Lower(text_in)
    IN  IF \E keyword \in SENSITIVE_KEYWORDS : Contains(text, keyword) THEN "serious"
        ELSE IF \E keyword \in HIGH_RISK_KEYWORDS : Contains(text, keyword) THEN "high_risk"
        ELSE "playful"

detect_mode(text_in) ==
    LET text == Lower(text_in)
    IN  IF \E keyword \in HIGH_RISK_KEYWORDS : Contains(text, keyword) THEN "high_risk"
        ELSE IF \E keyword \in SENSITIVE_KEYWORDS : Contains(text, keyword) THEN "serious"
        ELSE "playful"

(* Texts to classify: up to MaxFragments fragments, concatenated.          *)

MaxFragments == 2

ClassifyFragments ==
    {<<"i","k"," ","w","i","l">>,
     <<" ","d","o","o","d">>,
     <<"Z","e","l","f","m","o","o","r","d">>,
     <<"A","N","G","S","T">>,
     <<"t","h","e","r","a","p","i","e">>,
     <<"D","o","k","t","e","r">>,
     <<"h","a","l","l","o">>,
     <<" ">>,
     <<"p","a","n","i","e","k">>,
     <<"p","t">>,
     <<"s","s">>,
     <<"R","A">>,
     <<"p","e">>}

RECURSIVE Concat(_)
Concat(parts) == IF parts = <<>> THEN <<>> ELSE Head(parts) \o Concat(Tail(parts))

ClassifyInputs == {Concat(fs) : fs \in SeqsUpTo(ClassifyFragments, MaxFragments)}

InitClassify ==
    /\ user_text \in ClassifyInputs
    /\ pc = "input"
    /\ mode = None
    /\ answer = <<>> /\ shaped = <<>> /\ reshaped = <<>>
    /\ store = EmptyStore /\ history = <<>>
    /\ facts = <<>> /\ messages = <<>> /\ resp = None
    /\ attempts = 0 /\ events = <<>> /\ received = <<>>
    /\ connOpen = FALSE /\ abandoned = FALSE
    /\ upstream = None /\ atAbandon = NotAbandoned

\* mode = detect_mode(user_text)
Classify ==
    /\ pc = "input"
    /\ mode' = detect_mode(user_text)
    /\ pc' = "classified"
    /\ UNCHANGED <<user_text, store, history, answer, facts, shaped, reshaped,
                   messages, resp, attempts, events, received, connOpen, abandoned,
                   upstream, atAbandon>>

NextClassify == Classify

SpecClassify == InitClassify /\ [][NextClassify]_vars

\* kw occurs in t when letter case is ignored, stated position by position
OccursIgnoringCase(kw, t) ==
    \E off \in 0..(Len(t) - Len(kw)) :
        \A j \in 1..Len(kw) : LowerChar(t[off + j]) = kw[j]

HasHighRisk(t) == \E kw \in HIGH_RISK_KEYWORDS : OccursIgnoringCase(kw, t)
HasSensitive(t) == \E kw \in SENSITIVE_KEYWORDS : OccursIgnoringCase(kw, t)

\* C8: the classifier is total with strict precedence: high_risk when the
\* lowercased text contains a high-risk keyword (whatever else it contains),
\* otherwise serious when it contains a sensitive keyword, otherwise playful
\* (in particular for empty and whitespace-only text).
C8_ClassifyPrecedence ==
    pc = "classified" =>
        /\ mode \in {"high_risk", "serious", "playful"}
        /\ HasHighRisk(user_text) => mode = "high_risk"
        /\ (~HasHighRisk(user_text) /\ HasSensitive(user_text)) => mode = "serious"
        /\ (~HasHighRisk(user_text) /\ ~HasSensitive(user_text)) => mode = "playful"
        /\ (\A i \in 1..Len(user_text) : IsSpace(user_text[i])) => mode = "playful"

C8_Witness ==
    /\ pc = "classified"
    /\ HasHighRisk(user_text) /\ HasSensitive(user_text)
    /\ user_text # Lower(user_text)
    /\ mode = "high_risk"

-----------------------------------------------------------------------------
(* The fact retriever.  A row of the store is a string, a dict with       *)
(* "text" and "content" entries, or a value of another type.  A dict entry *)
(* is absent, a string, or a value of another type (a number).             *)

MAX_FACTS == 8

Absent == [type |-> "absent", val |-> <<>>]
Str(t) == [type |-> "str", val |-> t]
Number == [type |-> "number", val |-> <<>>]

StrRow(t) == [kind |-> "str", text |-> Str(t), content |-> Absent]
DictRow(t, c) == [kind |-> "dict", text |-> t, content |-> c]
OtherRow == [kind |-> "other", text |-> Absent, content |-> Absent]

\* truth value of a json value
Truthy(v) == v.type = "number" \/ (v.type = "str" /\ v.val # <<>>)

\* [t for t in re.split(r"\W+", text.lower()) if t]: the maximal runs of
\* word characters of the lowercased text, in order
tokenize(text) ==
    LET low    == Lower(text)
        starts == SelectSeq(Indices(low),
                    LAMBDA i : IsWordChar(low[i]) /\ (i = 1 \/ ~IsWordChar(low[i-1])))
        ends   == SelectSeq(Indices(low),
                    LAMBDA i : IsWordChar(low[i]) /\ (i = Len(low) \/ ~IsWordChar(low[i+1])))
    IN  [k \in 1..Len(starts) |-> SubSeq(low, starts[k], ends[k])]

\* row.get("text") or row.get("content") or ""
DictText(row) ==
    IF Truthy(row.text) THEN row.text
    ELSE IF Truthy(row.content) THEN row.content
    ELSE Str(<<>>)

\* lines 75-83: the texts of the rows, strings kept as they are, dict texts
\* stripped and kept when not blank, everything else dropped
RECURSIVE Items(_)
Items(rows) ==
    IF rows = <<>> THEN <<>>
    ELSE LET row == Head(rows)
             rest == Items(Tail(rows))
         IN  IF row.kind = "str" THEN <<row.text.val>> \o rest
             ELSE IF row.kind = "dict" /\ DictText(row).type = "str"
                                       /\ Strip(DictText(row).val) # <<>>
                  THEN <<Strip(DictText(row).val)>> \o rest
             ELSE rest

\* len(query_tokens.intersection(set(tokenize(item))))
Overlap(query_tokens, item) == Cardinality(query_tokens \cap Range(tokenize(item)))

\* lines 86-90: the (overlap, item) pairs with overlap > 0, in store order
Scored(query_tokens, items) ==
    SelectSeq([i \in 1..Len(items) |->
                  [overlap |-> Overlap(query_tokens, items[i]), item |-> items[i]]],
              LAMBDA p : p.overlap > 0)

\* an unstable sort: p goes in front of its equals
InsertStable_Unstable(sorted, p) ==
    LET before == {i \in 1..Len(sorted) : sorted[i].overlap > p.overlap}
        k == IF before = {} THEN 0 ELSE SetMax(before)
    IN  SubSeq(sorted, 1, k) \o <<p>> \o SubSeq(sorted, k + 1, Len(sorted))

\* place of p in a list sorted by descending overlap, behind its equals
InsertStable(sorted, p) ==
    LET before == {i \in 1..Len(sorted) : sorted[i].overlap >= p.overlap}
        k == IF before = {} THEN 0 ELSE SetMax(before)
    IN  SubSeq(sorted, 1, k) \o <<p>> \o SubSeq(sorted, k + 1, Len(sorted))

\* scored.sort(key=lambda value: value[0], reverse=True): list.sort is stable
RECURSIVE SortDescending(_, _)
SortDescending(scored, n) ==
    IF n = 0 THEN <<>> ELSE InsertStable(SortDescending(scored, n - 1), scored[n])

retrieve_facts(query, data) ==
    IF ~data.ok THEN <<>>
    ELSE LET scored == Scored(Range(tokenize(query)), Items(data.rows))
             sorted == SortDescending(scored, Len(scored))
             top    == Take(sorted, MAX_FACTS)
         IN  [i \in 1..Len(top) |-> top[i].item]

(* Stores start with at most one row of any shape and grow row by row up   *)
(* to MaxStore rows.                                                       *)

MaxStore == 10

StoreRows ==
    {StrRow(<<"a", " ", "b">>),
     DictRow(Str(<<" ", "B", " ">>), Absent)}

FirstRows ==
    StoreRows \cup
    {DictRow(Str(<<>>), Str(<<"a", "!">>)), StrRow(<<"c">>),
     OtherRow, DictRow(Number, Str(<<"b">>)), StrRow(<<" ">>)}

RetrieveQueries == {<<"A", ",", " ", "b">>, <<"b", "_", " ", "b", "?">>}

InitRetrieve ==
    /\ user_text \in RetrieveQueries
    /\ store \in {EmptyStore, MissingStore} \cup {[ok |-> TRUE, rows |-> <<r>>] : r \in FirstRows}
    /\ pc = "input"
    /\ facts = <<>>
    /\ mode = None
    /\ answer = <<>> /\ shaped = <<>> /\ reshaped = <<>>
    /\ history = <<>> /\ messages = <<>> /\ resp = None
    /\ attempts = 0 /\ events = <<>> /\ received = <<>>
    /\ connOpen = FALSE /\ abandoned = FALSE
    /\ upstream = None /\ atAbandon = NotAbandoned

\* a row is added to memory_store.json
AddRow(row) ==
    /\ pc = "input"
    /\ store.ok
    /\ Len(store.rows) < MaxStore
    /\ store' = [store EXCEPT !.rows = Append(@, row)]
    /\ UNCHANGED <<user_text, history, answer, mode, facts, shaped, reshaped, messages,
                   resp, attempts, pc, events, received, connOpen, abandoned,
                   upstream, atAbandon>>

\* facts = retrieve_facts(user_text)
Retrieve ==
    /\ pc = "input"
    /\ facts' = retrieve_facts(user_text, store)
    /\ pc' = "retrieved"
    /\ UNCHANGED <<user_text, store, history, answer, mode, shaped, reshaped, messages,
                   resp, attempts, events, received, connOpen, abandoned,
                   upstream, atAbandon>>

NextRetrieve == (\E row \in StoreRows : AddRow(row)) \/ Retrieve

SpecRetrieve == InitRetrieve /\ [][NextRetrieve]_vars

\* number of lowercase word tokens that t shares with the query
Shared(t) == Cardinality(Range(tokenize(user_text)) \cap Range(tokenize(t)))

StoreTexts == IF store.ok THEN Items(store.rows) ELSE <<>>

\* the positions of the sequence of overlaps ov that hold the value v
Having(ov, v) == SelectSeq(Indices(ov), LAMBDA i : ov[i] = v)

\* C5: retrieval returns at most 8 entries, each sharing a token with the
\* query, in non-increasing order of overlap; entries of equal overlap come
\* in store order; no store entry with overlap > 0 is left out while an entry
\* of strictly smaller overlap is returned.
C5_RetrieveRanked ==
    pc = "retrieved" =>
        LET all  == StoreTexts
            got  == [i \in 1..Len(facts) |-> Shared(facts[i])]
            have == [i \in 1..Len(all) |-> Shared(all[i])]
        IN  /\ Len(facts) <= MAX_FACTS
            /\ \A i \in 1..Len(got) : got[i] > 0
            /\ \A i \in 1..(Len(got) - 1) : got[i] >= got[i + 1]
            /\ \A v \in 1..Len(user_text) :
                  LET g == Having(got, v)
                      h == Having(have, v)
                  IN  /\ Len(g) <= Len(h)
                      /\ \A k \in 1..Len(g) : facts[g[k]] = all[h[k]]
                      /\ Len(g) < Len(h) => \A i \in 1..Len(got) : got[i] >= v

C5_Witness ==
    /\ pc = "retrieved"
    /\ Len(facts) = MAX_FACTS
    /\ Len(SelectSeq(StoreTexts, LAMBDA t : Shared(t) > 0)) > MAX_FACTS
    /\ \E i \in 1..(MAX_FACTS - 1) :
          facts[i] # facts[i + 1] /\ Shared(facts[i]) = Shared(facts[i + 1])
    /\ Shared(facts[1]) > Shared(facts[MAX_FACTS])

-----------------------------------------------------------------------------
(* The chat handler.                                                       *)

HISTORY_WINDOW == 12
FACTS_USED == 5
HTTP_OK == 200
HTTP_UNAVAILABLE == 503

\* "Ik kan het model nu niet bereiken. Start Ollama en probeer opnieuw."
UNAVAILABLE_ANSWER ==
    <<"I","k"," ","k","a","n"," ","h","e","t"," ","m","o","d","e","l"," ","n","u"," ","n","i","e","t"," ",
     "b","e","r","e","i","k","e","n","."," ","S","t","a","r","t"," ","O","l","l","a","m","a"," ","e","n"," ","p","r","o","b","e","e","r"," ","o","p","n","i","e","u","w",".">>

\* build_system_prompt: the fixed rules, the tone of the mode, the facts block
\* (a placeholder line when there are no facts) and the two closing lines
build_system_prompt(m, fs) ==
    [rules |-> "base_rules",
     tone  |-> IF m = "playful" THEN "tone_playful"
               ELSE IF m = "high_risk" THEN "tone_high_risk"
               ELSE "tone_serious",
     facts_block |-> IF fs # <<>> THEN fs ELSE <<<<"-", " ", "(", "g", "e", "e", "n", ")">>>>,
     closing |-> "use_facts_and_admit_uncertainty"]

\* request.history[-12:] with the first twelve turns taken instead
LastTurns_First(h) == SubSeq(h, 1, IF Len(h) < HISTORY_WINDOW THEN Len(h) ELSE HISTORY_WINDOW)

\* request.history[-12:]
LastTurns(h) ==
    IF Len(h) > HISTORY_WINDOW THEN SubSeq(h, Len(h) - HISTORY_WINDOW + 1, Len(h)) ELSE h

\* lines 167-171: system prompt, the last turns with their roles normalised,
\* the current user turn
BuildMessages(prompt, h, text) ==
    LET turns == LastTurns(h)
    IN  <<[role |-> "system", content |-> prompt]>>
        \o [i \in 1..Len(turns) |->
              [role |-> IF turns[i].role = "assistant" THEN "assistant" ELSE "user",
               content |-> turns[i].content]]
        \o <<[role |-> "user", content |-> text]>>

\* what one POST to /api/chat can come to (lines 174-178):
\*   connect_error, timeout  requests.post raises
\*   http_error              raise_for_status raises
\*   invalid_json            response.json() raises
\*   not_object              the body is JSON but no object: data.get raises
\*   content_number          message.content is a number: re.sub raises
\*   no_message              an object without "message": the content is ""
\*   ok                      an object with message.content = content
FailureKinds == {"connect_error", "timeout", "http_error", "invalid_json",
                 "not_object", "content_number"}

Reply(kind, content) == [kind |-> kind, content |-> content]

NoResponse == [status |-> 0, mode |-> None, answer |-> <<>>, facts_used |-> <<>>]

\* the 503 response with no facts in it
UnavailableResponse_NoFacts(m, fs) ==
    [status |-> HTTP_UNAVAILABLE, mode |-> m, answer |-> UNAVAILABLE_ANSWER,
     facts_used |-> <<>>]

\* lines 180-188
UnavailableResponse(m, fs) ==
    [status |-> HTTP_UNAVAILABLE, mode |-> m, answer |-> UNAVAILABLE_ANSWER,
     facts_used |-> Take(fs, FACTS_USED)]

\* lines 176-179
SuccessResponse(m, fs, reply) ==
    [status |-> HTTP_OK, mode |-> m,
     answer |-> shortify_answer(IF reply.kind = "ok" THEN reply.content ELSE <<>>),
     facts_used |-> Take(fs, FACTS_USED)]

(* Requests: a text, a store, and a history that starts with up to two     *)
(* turns of any role and goes on with alternating user and assistant       *)
(* turns, up to MaxHistory turns.  The content of a turn names its place.  *)

MaxHistory == 14

ChatTexts == {<<"I","K"," ","W","I","L"," ","D","O","O","D"," ","a">>,
              <<"a","n","g","s","t",","," ","b">>,
              <<"h","a","l","l","o">>}

ChatStore ==
    [ok |-> TRUE,
     rows |-> <<StrRow(<<"a">>), StrRow(<<"b", " ", "a">>), StrRow(<<"c">>),
                DictRow(Str(<<"A", "!">>), Absent), StrRow(<<"a", " ", "b">>),
                StrRow(<<"b">>), StrRow(<<"a", "?">>), StrRow(<<"b", ".">>),
                StrRow(<<"dood", " ", "a">>)>>]

HistoryRoles == {"user", "assistant", "system"}

Turn(role, n) == [role |-> role, content |-> <<LowerLetters[n]>>]

RawAnswers == {<<>>, <<"o", "k", ".", " ", " ", "a">>,
               <<"a", ".", " ", "b", "!", " ", "c", "?", " ", "d", ".", " ", "e">>}

ChatReplies ==
    {Reply(k, <<>>) : k \in FailureKinds \cup {"no_message"}}
    \cup {Reply("ok", a) : a \in RawAnswers}

InitChat ==
    /\ user_text \in ChatTexts
    /\ store \in {ChatStore, MissingStore}
    /\ history \in {[i \in 1..Len(rs) |-> Turn(rs[i], i)] : rs \in SeqsUpTo(HistoryRoles, 2)}
    /\ pc = "request"
    /\ mode = None /\ facts = <<>> /\ messages = <<>>
    /\ resp = NoResponse /\ attempts = 0 /\ received = <<>>
    /\ answer = <<>> /\ shaped = <<>> /\ reshaped = <<>>
    /\ events = <<>> /\ connOpen = FALSE /\ abandoned = FALSE
    /\ upstream = None /\ atAbandon = NotAbandoned

\* the client adds the next turn of the conversation to the request
AppendTurn ==
    /\ pc = "request"
    /\ Len(history) >= 2
    /\ Len(history) < MaxHistory
    /\ history' = Append(history,
                         Turn(IF history[Len(history)].role = "assistant"
                              THEN "user" ELSE "assistant", Len(history) + 1))
    /\ UNCHANGED <<user_text, store, answer, mode, facts, shaped, reshaped, messages,
                   resp, attempts, pc, events, received, connOpen, abandoned,
                   upstream, atAbandon>>

\* POST /chat, the upstream answering with reply
Chat(reply) ==
    /\ pc = "request"
    /\ LET m  == detect_mode(user_text)
           fs == retrieve_facts(user_text, store)
       IN  /\ mode' = m
           /\ facts' = fs
           /\ messages' = BuildMessages(build_system_prompt(m, fs), history, user_text)
           /\ resp' = IF reply.kind \in FailureKinds
                      THEN UnavailableResponse(m, fs)
                      ELSE SuccessResponse(m, fs, reply)
    /\ attempts' = attempts + 1
    /\ upstream' = reply
    /\ pc' = "responded"
    /\ UNCHANGED <<user_text, store, history, answer, shaped, reshaped,
                   events, received, connOpen, abandoned, atAbandon>>

NextChat == AppendTurn \/ (\E reply \in ChatReplies : Chat(reply))

SpecChat == InitChat /\ [][NextChat]_vars

\* the mode the classifier gives, stated from the keyword occurrences
ExpectedMode ==
    IF HasHighRisk(user_text) THEN "high_risk"
    ELSE IF HasSensitive(user_text) THEN "serious" ELSE "playful"

\* the ranked facts of the request, at most five of them
ExpectedFactsUsed ==
    LET ranked == retrieve_facts(user_text, store)
    IN  [i \in 1..(IF Len(ranked) < 5 THEN Len(ranked) ELSE 5) |-> ranked[i]]

\* C4: when the upstream attempt of the non-stream call fails (network error,
\* timeout, non-success status, unparsable body) there is no second attempt
\* and the call returns status 503 with the fixed fallback answer and the
\* same mode and facts_used as the success path gives for the request.
C4_ChatUnavailable ==
    (pc = "responded" /\ upstream.kind \in
        {"connect_error", "timeout", "http_error", "invalid_json"}) =>
        /\ attempts = 1
        /\ resp.status = 503
        /\ resp.answer = UNAVAILABLE_ANSWER
        /\ resp.mode = ExpectedMode
        /\ resp.facts_used = ExpectedFactsUsed

C4_Witness ==
    /\ pc = "responded"
    /\ upstream.kind = "invalid_json"
    /\ resp.status = 503
    /\ resp.mode = "high_risk"
    /\ Len(resp.facts_used) = 5
    /\ Len(facts) > 5

\* C9: the message list sent to the gateway is the system prompt, then the
\* last min(n, 12) history turns in their order (roles assistant or user),
\* then the current user turn: min(n, 12) + 2 messages, none of them a turn
\* older than the 12 most recent.
C9_MessageWindow ==
    pc = "responded" =>
        LET n == Len(history)
            k == IF n < 12 THEN n ELSE 12
        IN  /\ Len(messages) = k + 2
            /\ messages[1].role = "system"
            /\ messages[1].content = build_system_prompt(ExpectedMode, retrieve_facts(user_text, store))
            /\ \A i \in 1..k :
                  /\ messages[1 + i].content = history[n - k + i].content
                  /\ messages[1 + i].role \in {"assistant", "user"}
                  /\ messages[1 + i].role = "assistant" <=> history[n - k + i].role = "assistant"
            /\ messages[k + 2].role = "user"
            /\ messages[k + 2].content = user_text

C9_Witness ==
    /\ pc = "responded"
    /\ Len(history) > 12
    /\ Len(messages) = 14
    /\ history[1].role = "system"
    /\ messages[2].content = history[Len(history) - 11].content

-----------------------------------------------------------------------------
(* The streaming relay: chat_stream and its generator.  pc is the place of *)
(* the generator:                                                          *)
(*   request        chat_stream has not run                                *)
(*   start          the generator exists and has not been started          *)
(*   reading        inside iter_lines, waiting for the next upstream line   *)
(*   yielded_chunk  suspended at the yield of a chunk event (line 212)     *)
(*   yielded_done   suspended at the yield of the done event (line 215)    *)
(*   yielded_error  suspended at the yield of the error event (line 221)   *)
(*   finished       the generator has returned                             *)
(*   closed         the generator was dropped at a yield                   *)

\* an upstream line:
\*   blank        the empty line: skipped by "if not line"
\*   garbage      not JSON: json.loads raises
\*   not_object   JSON but no object: data.get raises
\*   bad_message  an object whose "message" is no object: .get raises
\*   object       an object; content is message.content ("" when absent),
\*                done is the truth of its "done" entry
Line(kind, content, done) == [kind |-> kind, content |-> content, done |-> done]

ChunkEvent(content) ==
    [type |-> "chunk", text |-> content, mode |-> None, facts_used |-> <<>>]
DoneEvent(m, fs) ==
    [type |-> "done", text |-> <<>>, mode |-> m, facts_used |-> Take(fs, FACTS_USED)]
ErrorEvent(m) ==
    [type |-> "error", text |-> UNAVAILABLE_ANSWER, mode |-> m, facts_used |-> <<>>]

\* json.loads(line) or one of the two .get calls of line 210 raises
Raises_GarbageSkipped(line) == line.kind \in {"not_object", "bad_message"}

\* lines 209-210
Raises(line) == line.kind \in {"garbage", "not_object", "bad_message"}

\* the completion flag ignored
Completes_Never(line) == FALSE

\* if data.get("done"): break
Completes(line) == line.kind = "object" /\ line.done

\* the handler with the done event sent whatever happened
OnException_ThenDone(evts, m, fs) == evts \o <<ErrorEvent(m), DoneEvent(m, fs)>>

\* lines 216-221: the except clause yields the error event
OnException(evts, m, fs) == Append(evts, ErrorEvent(m))

(* Upstream lines, up to MaxLines of them per stream.                      *)

MaxLines == 4

StreamTexts == {<<"I","K"," ","W","I","L"," ","D","O","O","D"," ","a">>, <<"h","a","l","l","o">>}

StreamLines ==
    {Line("blank", <<>>, FALSE), Line("garbage", <<>>, FALSE),
     Line("not_object", <<>>, FALSE), Line("bad_message", <<>>, FALSE)}
    \cup {Line("object", c, d) : c \in {<<>>, <<"x">>, <<"y", " ">>}, d \in BOOLEAN}

InitStream ==
    /\ user_text \in StreamTexts
    /\ store \in {ChatStore, MissingStore}
    /\ pc = "request"
    /\ mode = None /\ facts = <<>> /\ messages = <<>>
    /\ events = <<>> /\ received = <<>> /\ attempts = 0
    /\ connOpen = FALSE /\ abandoned = FALSE
    /\ upstream = None /\ atAbandon = NotAbandoned
    /\ history = <<>> /\ resp = NoResponse
    /\ answer = <<>> /\ shaped = <<>> /\ reshaped = <<>>

\* GET /chat/stream: lines 193-200 and 223; the generator is handed to the
\* response and has not run yet
ChatStream ==
    /\ pc = "request"
    /\ LET m  == detect_mode(user_text)
           fs == retrieve_facts(user_text, store)
       IN  /\ mode' = m
           /\ facts' = fs
           /\ messages' = <<[role |-> "system", content |-> build_system_prompt(m, fs)],
                            [role |-> "user", content |-> user_text]>>
    /\ pc' = "start"
    /\ UNCHANGED <<user_text, store, history, answer, shaped, reshaped, resp, attempts,
                   events, upstream, received, connOpen, abandoned, atAbandon>>

\* lines 204-205: the POST and raise_for_status.  connect_error and timeout
\* leave no response; http_error leaves one that raise_for_status rejects
Connect(outcome) ==
    /\ pc = "start"
    /\ attempts' = attempts + 1
    /\ upstream' = outcome
    /\ connOpen' = (outcome \in {"ok", "http_error"})
    /\ IF outcome = "ok"
       THEN pc' = "reading" /\ events' = events
       ELSE pc' = "yielded_error" /\ events' = OnException(events, mode, facts)
    /\ UNCHANGED <<user_text, store, history, answer, mode, facts, shaped, reshaped,
                   messages, resp, received, abandoned, atAbandon>>

\* lines 206-214: iter_lines delivers a line and the loop body runs up to
\* its yield, its break or the next wait
ReadLine(line) ==
    /\ pc = "reading"
    /\ Len(received) < MaxLines
    /\ received' = Append(received, line)
    /\ IF line.kind = "blank"
       THEN pc' = "reading" /\ events' = events
       ELSE IF Raises(line)
       THEN pc' = "yielded_error" /\ events' = OnException(events, mode, facts)
       ELSE IF line.content # <<>>
       THEN pc' = "yielded_chunk" /\ events' = Append(events, ChunkEvent(line.content))
       ELSE IF Completes(line)
       THEN pc' = "yielded_done" /\ events' = Append(events, DoneEvent(mode, facts))
       ELSE pc' = "reading" /\ events' = events
    /\ UNCHANGED <<user_text, store, history, answer, mode, facts, shaped, reshaped,
                   messages, resp, attempts, upstream, connOpen, abandoned, atAbandon>>

\* line 206: iter_lines raises (the connection breaks, a read times out)
ReadFails ==
    /\ pc = "reading"
    /\ connOpen' = FALSE
    /\ pc' = "yielded_error"
    /\ events' = OnException(events, mode, facts)
    /\ UNCHANGED <<user_text, store, history, answer, mode, facts, shaped, reshaped,
                   messages, resp, attempts, upstream, received, abandoned, atAbandon>>

\* lines 206 and 215: the upstream body ends, the loop is left and the done
\* event is yielded; the exhausted response gives its connection back
EndOfInput ==
    /\ pc = "reading"
    /\ connOpen' = FALSE
    /\ pc' = "yielded_done"
    /\ events' = Append(events, DoneEvent(mode, facts))
    /\ UNCHANGED <<user_text, store, history, answer, mode, facts, shaped, reshaped,
                   messages, resp, attempts, upstream, received, abandoned, atAbandon>>

\* the consumer asks for the next event: the generator goes on behind the
\* yield it was suspended at (lines 213-215, or the end of the function)
Resume ==
    /\ pc \in {"yielded_chunk", "yielded_done", "yielded_error"}
    /\ IF pc = "yielded_chunk"
       THEN IF Completes(received[Len(received)])
            THEN pc' = "yielded_done" /\ events' = Append(events, DoneEvent(mode, facts))
            ELSE pc' = "reading" /\ events' = events
       ELSE pc' = "finished" /\ events' = events
    /\ UNCHANGED <<user_text, store, history, answer, mode, facts, shaped, reshaped,
                   messages, resp, attempts, upstream, received, connOpen, abandoned,
                   atAbandon>>

\* the consumer disconnects while the generator is suspended at a yield: the
\* generator is dropped, GeneratorExit is raised at the yield, "except
\* Exception" does not catch it, and nothing in lines 202-221 closes the
\* response
Abandon ==
    /\ pc \in {"yielded_chunk", "yielded_done", "yielded_error"}
    /\ abandoned' = TRUE
    /\ atAbandon' = [events |-> Len(events), lines |-> Len(received), attempts |-> attempts]
    /\ pc' = "closed"
    /\ UNCHANGED <<user_text, store, history, answer, mode, facts, shaped, reshaped,
                   messages, resp, attempts, events, upstream, received, connOpen>>

NextStream ==
    \/ ChatStream
    \/ \E outcome \in {"ok", "connect_error", "timeout", "http_error"} : Connect(outcome)
    \/ \E line \in StreamLines : ReadLine(line)
    \/ ReadFails
    \/ EndOfInput
    \/ Resume
    \/ Abandon

SpecStream == InitStream /\ [][NextStream]_vars

Last(seq) == seq[Len(seq)]

IsTerminal(e) == e.type \in {"done", "error"}

\* C1: a stream that the consumer reads to the end emits zero or more chunk
\* events and then exactly one terminal event, done or error, and nothing
\* after it, whatever the upstream does; when the connection attempt fails
\* the stream is exactly one error event.
C1_OneTerminalEvent ==
    /\ \A i \in 1..(Len(events) - 1) : events[i].type = "chunk"
    /\ pc = "finished" =>
          /\ events # <<>>
          /\ IsTerminal(Last(events))
          /\ upstream \in {"connect_error", "timeout"} =>
                (Len(events) = 1 /\ events[1].type = "error")

C1_Witness ==
    /\ pc = "finished"
    /\ Len(events) = 3
    /\ events[1].type = "chunk"
    /\ Last(events).type = "error"
    /\ Last(received).kind = "not_object"

\* the received lines that parse to an object with non-empty content
ContentLines(lines) ==
    SelectSeq(lines, LAMBDA l : l.kind = "object" /\ l.content # <<>>)

ChunkEvents == SelectSeq(events, LAMBDA e : e.type = "chunk")

C3_AbandonReleases ==
    abandoned =>
        /\ Len(events) = atAbandon.events
        /\ Len(received) = atAbandon.lines
        /\ attempts = atAbandon.attempts
        /\ ~connOpen

\* the part of C3 that the generator keeps: nothing is read, requested or
\* emitted after the disconnect
C3_AbandonStops ==
    abandoned =>
        /\ Len(events) = atAbandon.events
        /\ Len(received) = atAbandon.lines
        /\ attempts = atAbandon.attempts
        /\ pc = "closed"

\* C10: every received line with non-empty content, the line with the
\* completion flag included, is emitted as one chunk event in arrival order;
\* once a line with the completion flag is processed no later line is read,
\* and the next and last event is the done event with the mode and at most
\* 5 facts.
C10_ChunksThenDone ==
    /\ Len(ChunkEvents) = Len(ContentLines(received))
    /\ \A i \in 1..Len(ChunkEvents) : ChunkEvents[i].text = ContentLines(received)[i].content
    /\ \A i \in 1..Len(received) :
          (received[i].kind = "object" /\ received[i].done) =>
              /\ i = Len(received)
              /\ pc \in {"yielded_chunk", "yielded_done", "finished", "closed"}
              /\ pc = "yielded_chunk" =>
                    Last(events) = ChunkEvent(received[i].content)
              /\ pc \in {"yielded_done", "finished"} =>
                    /\ Last(events).type = "done"
                    /\ Last(events).mode = ExpectedMode
                    /\ Last(events).facts_used = ExpectedFactsUsed
                    /\ Len(Last(events).facts_used) <= 5
                    /\ received[i].content # <<>> =>
                          events[Len(events) - 1] = ChunkEvent(received[i].content)

C10_Witness ==
    /\ pc = "finished"
    /\ Len(received) = 3
    /\ received[1].content = <<"x">> /\ ~received[1].done
    /\ received[2].kind = "blank"
    /\ received[3].content = <<"y", " ">> /\ received[3].done
    /\ Len(events) = 3
    /\ Last(events).type = "done"
    /\ Len(Last(events).facts_used) = 5

=============================================================================
